---- MODULE Spec2Model ----
(***************************************************************************)
(* Model of src/Service-Worker.js: the install / activate / fetch          *)
(* listeners of the service worker and the three strategy functions        *)
(* networkFirstNavigation, staleWhileRevalidate and cacheFirst.            *)
(*                                                                         *)
(* Every `await` of the source is a step boundary: the code between two    *)
(* awaits is one atomic action.  A cache.put that the source does not      *)
(* await is a pending write of the handler that the Cache API applies (or  *)
(* rejects) in a later step.  The network is an input: the outcome of a    *)
(* fetch is drawn when the fetch settles.                                  *)
(***************************************************************************)
EXTENDS Naturals, Sequences, FiniteSets, TLC

(***************************************************************************)
(* Bounds                                                                  *)
(***************************************************************************)
\* number of fetch events dispatched to the worker in one run
MaxHandlers == 2

H == 1 .. MaxHandlers

(***************************************************************************)
(* Program constants                                                       *)
(***************************************************************************)
CACHE_NAME == "awc-cache-v2"
ENTRY_HTML == "/index.html"
ROOT_PATH == "/"
PRECACHE_ASSETS ==
    << "/", ENTRY_HTML, "/manifest.json", "/icons/icon-192.png",
       "/icons/icon-512.png", "/icons/apple-touch-icon-180.png" >>
OFFLINE_DOC == "offline-html-200"

\* self.origin, and one foreign origin
SelfOrigin == "https://app.example"
OtherOrigin == "https://cdn.example"

(***************************************************************************)
(* URLs.  A request carries its URL as origin and pathname, the two parts  *)
(* `new URL(req.url)` exposes; the key of a cache entry is the whole URL.  *)
(* A path given to caches.match / cache.put / cache.addAll is resolved     *)
(* against the worker's own origin.                                        *)
(***************************************************************************)
Resolve(path) == SelfOrigin \o path
KeyOf(r) == r.origin \o r.pathname

\* /suffix$/ on a string
EndsWith(s, suf) ==
    /\ Len(s) >= Len(suf)
    /\ SubSeq(s, Len(s) - Len(suf) + 1, Len(s)) = suf

\* /\.(?:css|js)$/.test(url.pathname)
IsStyleOrScript(pathname) ==
    \E e \in {"css", "js"} : EndsWith(pathname, "." \o e)

\* /\.(?:png|jpg|jpeg|gif|webp|svg|ico)$/.test(url.pathname)
IsImage(pathname) ==
    \E e \in {"png", "jpg", "jpeg", "gif", "webp", "svg", "ico"} :
        EndsWith(pathname, "." \o e)

\* The if-cascade of the fetch listener: the strategy the listener hands
\* to event.respondWith, or "none" when it returns without respondWith.
RouteSuffixFirst(r) ==
    IF r.method # "GET" THEN "none"
    ELSE IF r.origin = SelfOrigin /\ IsStyleOrScript(r.pathname) THEN "SWR"
    ELSE IF r.origin = SelfOrigin /\ IsImage(r.pathname) THEN "CF"
    ELSE IF r.mode = "navigate" THEN "NFN"
    ELSE "NWCF"

Route(r) ==
    IF r.method # "GET" THEN "none"
    ELSE IF r.mode = "navigate" THEN "NFN"
    ELSE IF r.origin = SelfOrigin /\ IsStyleOrScript(r.pathname) THEN "SWR"
    ELSE IF r.origin = SelfOrigin /\ IsImage(r.pathname) THEN "CF"
    ELSE "NWCF"

(***************************************************************************)
(* Inputs                                                                  *)
(***************************************************************************)
Req(m, md, o, p) == [method |-> m, mode |-> md, origin |-> o, pathname |-> p]

\* the requests dispatched to the handlers of the full state machine
Requests ==
    { Req("GET", "navigate", SelfOrigin, "/"),
      Req("GET", "navigate", SelfOrigin, "/app.js"),
      Req("GET", "no-cors", SelfOrigin, "/app.js"),
      Req("GET", "no-cors", SelfOrigin, "/a.png"),
      Req("GET", "cors", SelfOrigin, "/manifest.json"),
      Req("POST", "cors", SelfOrigin, "/manifest.json") }

\* the request descriptors the router is checked on
RoutePaths ==
    { "/", "/index.html", "/app.js", "/style.css", "/a.png", "/b.jpg",
      "/c.jpeg", "/d.gif", "/e.webp", "/f.svg", "/favicon.ico",
      "/manifest.json", "/APP.JS", "/A.PNG", "/x.jsx", "/xjs", "/png",
      "/js/page", "/a.png/" }
RouteRequests ==
    { Req(m, md, o, p) : m \in {"GET", "POST"}, md \in {"navigate", "no-cors"},
                         o \in {SelfOrigin, OtherOrigin}, p \in RoutePaths }

\* bodies the network answers with; OldBody is content cached by an
\* earlier run of the worker
Bodies == {"v1", "v2"}
OldBody == "v0"
OldRoot == "root-v0"
PrecacheBody == "v1"

(***************************************************************************)
(* The Cache Storage of the origin: the stores in creation order, and the  *)
(* entries of each.  It persists across runs of the worker.                *)
(***************************************************************************)
StaleNames == {"awc-cache-v1", "old-cache-v1"}
AllNames == {CACHE_NAME} \cup StaleNames

NoEntry == "undefined"
Keys ==
    { Resolve(PRECACHE_ASSETS[i]) : i \in DOMAIN PRECACHE_ASSETS }
        \cup { KeyOf(r) : r \in Requests }
EmptyStore == [k \in Keys |-> NoEntry]

\* what an earlier run of the worker may have left in the current store:
\* at most two entries, the root document differing from the others
InitKeys ==
    { Resolve(ENTRY_HTML), Resolve(ROOT_PATH), Resolve("/app.js"),
      Resolve("/a.png"), Resolve("/manifest.json") }
OldBodyOf(k) == IF k = Resolve(ROOT_PATH) THEN OldRoot ELSE OldBody
InitContents ==
    { [k \in Keys |-> IF k \in S THEN OldBodyOf(k) ELSE NoEntry] :
        S \in { T \in SUBSET InitKeys : Cardinality(T) <= 2 } }
StaleContent ==
    [k \in Keys |-> IF k \in {Resolve(ENTRY_HTML), Resolve(ROOT_PATH)}
                    THEN OldBodyOf(k) ELSE NoEntry]

\* sequences over S without repetition
RECURSIVE Orderings(_)
Orderings(S) ==
    IF S = {} THEN { <<>> }
    ELSE UNION { { <<x>> \o t : t \in Orderings(S \ {x}) } : x \in S }

Range(f) == { f[i] : i \in DOMAIN f }

VARIABLES
    phase,        \* state of the worker: parsed, installing, installed,
                  \* activating, activated, redundant
    cacheNames,   \* names of the existing stores, in creation order
    stores,       \* entries of each store (EmptyStore when it does not exist)
    inst,         \* install: outcome of the fetch of each precache asset
    actPending,   \* activate: stores whose caches.delete has not completed
    claimed,      \* activate: clients.claim() has been called
    preAct,       \* entries of the current store when activate started
    req,          \* per fetch event: event.request
    strat,        \* per fetch event: the strategy given to respondWith
    pc,           \* per fetch event: the await the handler is suspended at
    cached,       \* per fetch event: the local `cached`
    net,          \* per fetch event: state of the handler's fetch(request)
    nfetch,       \* per fetch event: number of fetch() calls issued
    wr,           \* per fetch event: the cache.put issued by the handler
    ret           \* per fetch event: what respondWith's promise settled to

vars ==
    << phase, cacheNames, stores, inst, actPending, claimed, preAct,
       req, strat, pc, cached, net, nfetch, wr, ret >>

lifecycleVars == << phase, inst, actPending, claimed, preAct >>
handlerVars == << req, strat, pc, cached, net, nfetch, wr, ret >>

NoReq == [method |-> "-", mode |-> "-", origin |-> "-", pathname |-> "-"]
NoPut == [st |-> "none", key |-> "-", val |-> "-"]

IdleHandlers ==
    /\ req = [h \in H |-> NoReq]
    /\ strat = [h \in H |-> "-"]
    /\ pc = [h \in H |-> "idle"]
    /\ cached = [h \in H |-> "unset"]
    /\ net = [h \in H |-> "none"]
    /\ nfetch = [h \in H |-> 0]
    /\ wr = [h \in H |-> NoPut]
    /\ ret = [h \in H |-> "pending"]

\* A worker whose script has just been evaluated.  Either it is a new
\* worker about to be installed, next to whatever stores earlier versions
\* left behind, or it is the active worker started again for a fetch event,
\* with what is left of its own store.
InitNew ==
    /\ phase = "parsed"
    /\ cacheNames \in UNION { Orderings(S) : S \in SUBSET AllNames }
    /\ \E c \in {EmptyStore, [EmptyStore EXCEPT ![Resolve("/a.png")] = OldBody]} :
         stores = [n \in AllNames |->
                     IF n \notin Range(cacheNames) THEN EmptyStore
                     ELSE IF n = CACHE_NAME THEN c ELSE StaleContent]
    /\ claimed = FALSE

InitRestarted ==
    /\ phase = "activated"
    /\ \/ /\ cacheNames = <<>>
          /\ stores = [n \in AllNames |-> EmptyStore]
       \/ /\ cacheNames = << CACHE_NAME >>
          /\ \E c \in InitContents :
               stores = [n \in AllNames |-> IF n = CACHE_NAME THEN c ELSE EmptyStore]
    /\ claimed = TRUE

Init ==
    /\ InitNew \/ InitRestarted
    /\ inst = [i \in DOMAIN PRECACHE_ASSETS |-> "idle"]
    /\ actPending = {}
    /\ preAct = EmptyStore
    /\ IdleHandlers

(***************************************************************************)
(* Cache Storage operations                                                *)
(***************************************************************************)
Exists(n) == n \in Range(cacheNames)

\* caches.open(name): the store is created when it does not exist
OpenNamesPrevious(n) ==
    IF "awc-cache-v1" \in Range(cacheNames) THEN cacheNames
    ELSE Append(cacheNames, "awc-cache-v1")
OpenNames(n) == IF Exists(n) THEN cacheNames ELSE Append(cacheNames, n)

\* cache.match(key) on the store `n`
CacheMatch(n, k) == stores[n][k]

\* caches.match(key): the first store, in creation order, that has the key
CachesMatch(k) ==
    LET hits == { i \in DOMAIN cacheNames : stores[cacheNames[i]][k] # NoEntry }
    IN  IF hits = {} THEN NoEntry
        ELSE stores[cacheNames[CHOOSE i \in hits : \A j \in hits : i <= j]][k]

\* cache.put(key, response) on the store `n`, applied
PutIfAbsent(n, k, v) ==
    IF stores[n][k] # NoEntry THEN stores ELSE [stores EXCEPT ![n][k] = v]
PutInto(n, k, v) == [stores EXCEPT ![n][k] = v]

(***************************************************************************)
(* install listener                                                        *)
(***************************************************************************)
Assets == DOMAIN PRECACHE_ASSETS

\* the listener runs: skipWaiting(), and caches.open(CACHE_NAME) is pending
InstallStart ==
    /\ phase = "parsed"
    /\ phase' = "installing"
    /\ UNCHANGED << cacheNames, stores, inst, actPending, claimed, preAct >>
    /\ UNCHANGED handlerVars

\* caches.open resolved: cache.addAll issues the fetch of every asset
InstallOpened ==
    /\ phase = "installing"
    /\ \A i \in Assets : inst[i] = "idle"
    /\ cacheNames' = OpenNames(CACHE_NAME)
    /\ inst' = [i \in Assets |-> "inflight"]
    /\ UNCHANGED << phase, stores, actPending, claimed, preAct >>
    /\ UNCHANGED handlerVars

\* the fetch of one asset settles (a response that is not ok counts as failed)
InstallFetchSettle(i) ==
    /\ phase = "installing"
    /\ inst[i] = "inflight"
    /\ \E o \in {"ok", "fail"} : inst' = [inst EXCEPT ![i] = o]
    /\ UNCHANGED << phase, cacheNames, stores, actPending, claimed, preAct >>
    /\ UNCHANGED handlerVars

\* cache.addAll resolves when every request of the list was fetched with
\* an ok response
InstallReadyAny == \E i \in Assets : inst[i] = "ok"
InstallReadySettled == \A i \in Assets : inst[i] \in {"ok", "fail"}
InstallReady == \A i \in Assets : inst[i] = "ok"

\* every asset was fetched: addAll writes them all and waitUntil's promise
\* resolves
InstallDone ==
    /\ phase = "installing"
    /\ InstallReady
    /\ stores' = [stores EXCEPT ![CACHE_NAME] =
                    [k \in Keys |->
                        IF \E i \in Assets : k = Resolve(PRECACHE_ASSETS[i])
                        THEN PrecacheBody ELSE @[k]]]
    /\ phase' = "installed"
    /\ UNCHANGED << cacheNames, inst, actPending, claimed, preAct >>
    /\ UNCHANGED handlerVars

\* one fetch failed: addAll rejects, nothing is written, the worker is
\* discarded
InstallFailed ==
    /\ phase = "installing"
    /\ \E i \in Assets : inst[i] = "fail"
    /\ phase' = "redundant"
    /\ UNCHANGED << cacheNames, stores, inst, actPending, claimed, preAct >>
    /\ UNCHANGED handlerVars

(***************************************************************************)
(* activate listener                                                       *)
(***************************************************************************)
\* keys.map(k => (k !== CACHE_NAME ? caches.delete(k) : null))
DeleteEveryKey(keys) == keys
StaleKeys(keys) == { k \in keys : k # CACHE_NAME }

\* the activate event is dispatched: the listener runs to await caches.keys()
ActivateStart ==
    /\ phase = "installed"
    /\ phase' = "activating"
    /\ preAct' = stores[CACHE_NAME]
    /\ UNCHANGED << cacheNames, stores, inst, actPending, claimed >>
    /\ UNCHANGED handlerVars

\* while activating, no deletion pending and claim() not called: the
\* listener still waits for caches.keys()
KeysPending == phase = "activating" /\ actPending = {} /\ ~claimed

\* caches.keys() resolves: the deletions are issued; with nothing to delete
\* Promise.all resolves in the same step and clients.claim() is called
ActivateKeys ==
    /\ KeysPending
    /\ actPending' = StaleKeys(Range(cacheNames))
    /\ claimed' = (StaleKeys(Range(cacheNames)) = {})
    /\ UNCHANGED << phase, cacheNames, stores, inst, preAct >>
    /\ UNCHANGED handlerVars

\* one caches.delete(k) completes; after the last one Promise.all resolves
\* and clients.claim() is called
ActivateDeleted(k) ==
    /\ phase = "activating"
    /\ k \in actPending
    /\ cacheNames' = SelectSeq(cacheNames, LAMBDA n : n # k)
    /\ stores' = [stores EXCEPT ![k] = EmptyStore]
    /\ actPending' = actPending \ {k}
    /\ claimed' = (actPending \ {k} = {})
    /\ UNCHANGED << phase, inst, preAct >>
    /\ UNCHANGED handlerVars

\* the promise of clients.claim() resolves: waitUntil settles and the worker
\* is activated
ActivateClaim ==
    /\ phase = "activating"
    /\ claimed
    /\ phase' = "activated"
    /\ UNCHANGED << cacheNames, stores, inst, actPending, claimed, preAct >>
    /\ UNCHANGED handlerVars

(***************************************************************************)
(* fetch listener                                                          *)
(***************************************************************************)
\* The listener runs to its return.  A strategy function runs synchronously
\* up to its first await: networkFirstNavigation and the default branch
\* have issued their fetch, staleWhileRevalidate and cacheFirst wait for
\* caches.open.
FetchEvent(h, r) ==
    /\ phase = "activated"
    /\ pc[h] = "idle"
    /\ \A g \in H : g < h => pc[g] # "idle"
    /\ req' = [req EXCEPT ![h] = r]
    /\ strat' = [strat EXCEPT ![h] = Route(r)]
    /\ LET s == Route(r) IN
         /\ pc' = [pc EXCEPT ![h] =
                     CASE s = "none" -> "done"
                       [] s \in {"NFN", "NWCF"} -> "fetch"
                       [] OTHER -> "open"]
         /\ net' = [net EXCEPT ![h] =
                      IF s \in {"NFN", "NWCF"} THEN "inflight" ELSE @]
         /\ nfetch' = [nfetch EXCEPT ![h] =
                         IF s \in {"NFN", "NWCF"} THEN @ + 1 ELSE @]
         /\ ret' = [ret EXCEPT ![h] = IF s = "none" THEN "passthrough" ELSE @]
    /\ UNCHANGED << cached, wr, cacheNames, stores >>
    /\ UNCHANGED lifecycleVars

\* outcomes of a fetch: a response, or a failure
Outcomes == Bodies \cup {"fail"}

\* the handler's respondWith promise settles
Settle(h, v) ==
    /\ ret' = [ret EXCEPT ![h] = v]
    /\ pc' = [pc EXCEPT ![h] = "done"]

\* the handler issues cache.put(k, v) on the current store without
\* awaiting it
IssueNoPut(h, k, v) == UNCHANGED wr
IssuePut(h, k, v) ==
    wr' = [wr EXCEPT ![h] = [st |-> "pending", key |-> k, val |-> v]]

\* a cache.put issued by a handler is applied to the store
PutApplied(h) ==
    /\ wr[h].st = "pending"
    /\ stores' = PutInto(CACHE_NAME, wr[h].key, wr[h].val)
    /\ wr' = [wr EXCEPT ![h].st = "applied"]
    /\ UNCHANGED << req, strat, pc, cached, net, nfetch, ret, cacheNames >>
    /\ UNCHANGED lifecycleVars

\* a cache.put issued by a handler is rejected by the Cache API; nobody
\* holds its promise
PutRejectedSurfaces(h) ==
    /\ wr[h].st = "pending"
    /\ wr' = [wr EXCEPT ![h].st = "failed"]
    /\ ret' = [ret EXCEPT ![h] = "rejected"]
    /\ UNCHANGED << req, strat, pc, cached, net, nfetch, cacheNames, stores >>
    /\ UNCHANGED lifecycleVars

PutRejected(h) ==
    /\ wr[h].st = "pending"
    /\ wr' = [wr EXCEPT ![h].st = "failed"]
    /\ UNCHANGED << req, strat, pc, cached, net, nfetch, ret, cacheNames, stores >>
    /\ UNCHANGED lifecycleVars

(***************************************************************************)
(* networkFirstNavigation                                                  *)
(***************************************************************************)
\* cache.put(ENTRY_HTML, fresh.clone()): the key written for request r
NfnPutKeyOfRequest(r) == KeyOf(r)
NfnPutKey(r) == Resolve(ENTRY_HTML)

\* (await caches.match(ENTRY_HTML)) || (await caches.match('/')): the keys
\* looked up, in order
NfnLookupRootFirst == << Resolve(ROOT_PATH), Resolve(ENTRY_HTML) >>
NfnLookup == << Resolve(ENTRY_HTML), Resolve(ROOT_PATH) >>

\* cached || new Response(`<!doctype html>...`)
NfnNoOffline(c) == c
NfnOrOffline(c) == IF c # NoEntry THEN c ELSE OFFLINE_DOC

\* await fetch(request) settles: on success await caches.open(CACHE_NAME),
\* on failure await caches.match(ENTRY_HTML)
NfnFetchSettle(h) ==
    /\ strat[h] = "NFN"
    /\ pc[h] = "fetch"
    /\ \E o \in Outcomes :
         /\ net' = [net EXCEPT ![h] = o]
         /\ pc' = [pc EXCEPT ![h] = IF o = "fail" THEN "matchEntry" ELSE "open"]
    /\ UNCHANGED << req, strat, cached, nfetch, wr, ret, cacheNames, stores >>
    /\ UNCHANGED lifecycleVars

\* caches.open resolved: cache.put is issued, not awaited, and fresh is
\* returned
NfnOpened(h) ==
    /\ strat[h] = "NFN"
    /\ pc[h] = "open"
    /\ cacheNames' = OpenNames(CACHE_NAME)
    /\ IssuePut(h, NfnPutKey(req[h]), net[h])
    /\ Settle(h, net[h])
    /\ UNCHANGED << req, strat, cached, net, nfetch, stores >>
    /\ UNCHANGED lifecycleVars

\* caches.match(ENTRY_HTML) resolved: a hit is returned, a miss goes on to
\* await caches.match('/')
NfnMatchEntry(h) ==
    /\ strat[h] = "NFN"
    /\ pc[h] = "matchEntry"
    /\ LET c == CachesMatch(NfnLookup[1]) IN
         /\ cached' = [cached EXCEPT ![h] = c]
         /\ IF c # NoEntry
            THEN Settle(h, c)
            ELSE /\ pc' = [pc EXCEPT ![h] = "matchRoot"]
                 /\ UNCHANGED ret
    /\ UNCHANGED << req, strat, net, nfetch, wr, cacheNames, stores >>
    /\ UNCHANGED lifecycleVars

\* caches.match('/') resolved: the entry, or the offline document
NfnMatchRoot(h) ==
    /\ strat[h] = "NFN"
    /\ pc[h] = "matchRoot"
    /\ LET c == CachesMatch(NfnLookup[2]) IN
         /\ cached' = [cached EXCEPT ![h] = c]
         /\ Settle(h, NfnOrOffline(c))
    /\ UNCHANGED << req, strat, net, nfetch, wr, cacheNames, stores >>
    /\ UNCHANGED lifecycleVars

(***************************************************************************)
(* staleWhileRevalidate                                                    *)
(***************************************************************************)
\* cached || networkPromise || fetch(request): networkPromise is a promise
\* object, which is truthy, so the third operand is never evaluated.  The
\* result is "cached" or "network": what the handler's promise resolves to.
SwrPickNetwork(c) == "network"
SwrPick(c) == IF c # NoEntry THEN "cached" ELSE "network"

\* .then(res => { cache.put(request, res.clone()); return res; }): the key
SwrPutKeyEntry(r) == Resolve(ENTRY_HTML)
SwrPutKey(r) == KeyOf(r)

\* await caches.open(CACHE_NAME) resolved; await cache.match(request)
SwrOpened(h) ==
    /\ strat[h] = "SWR"
    /\ pc[h] = "open"
    /\ cacheNames' = OpenNames(CACHE_NAME)
    /\ pc' = [pc EXCEPT ![h] = "match"]
    /\ UNCHANGED << req, strat, cached, net, nfetch, wr, ret, stores >>
    /\ UNCHANGED lifecycleVars

\* cache.match resolved: the fetch is issued and the function returns; with
\* a cached entry the handler resolves to it at once, otherwise it
\* resolves to what networkPromise will
SwrMatched(h) ==
    /\ strat[h] = "SWR"
    /\ pc[h] = "match"
    /\ LET c == CacheMatch(CACHE_NAME, KeyOf(req[h])) IN
         /\ cached' = [cached EXCEPT ![h] = c]
         /\ net' = [net EXCEPT ![h] = "inflight"]
         /\ nfetch' = [nfetch EXCEPT ![h] = @ + 1]
         /\ IF SwrPick(c) = "cached"
            THEN Settle(h, c)
            ELSE /\ pc' = [pc EXCEPT ![h] = "waitnet"]
                 /\ UNCHANGED ret
    /\ UNCHANGED << req, strat, wr, cacheNames, stores >>
    /\ UNCHANGED lifecycleVars

\* the fetch settles: on success the then-callback issues cache.put and
\* passes the response on; on failure the catch-callback yields undefined
SwrFetchSettle(h) ==
    /\ strat[h] = "SWR"
    /\ net[h] = "inflight"
    /\ \E o \in Outcomes :
         /\ net' = [net EXCEPT ![h] = o]
         /\ IF o # "fail"
            THEN IssuePut(h, SwrPutKey(req[h]), o)
            ELSE UNCHANGED wr
         /\ IF pc[h] = "waitnet"
            THEN Settle(h, IF o # "fail" THEN o ELSE "undefined")
            ELSE UNCHANGED << pc, ret >>
    /\ UNCHANGED << req, strat, cached, nfetch, cacheNames, stores >>
    /\ UNCHANGED lifecycleVars

(***************************************************************************)
(* cacheFirst                                                              *)
(***************************************************************************)
\* if (cached) return cached;
CfNeverHit(c) == FALSE
CfHit(c) == c # NoEntry

\* cache.put(request, res.clone()): the key
CfPutKeyEntry(r) == Resolve(ENTRY_HTML)
CfPutKey(r) == KeyOf(r)

\* await caches.open(CACHE_NAME) resolved; await cache.match(request)
CfOpened(h) ==
    /\ strat[h] = "CF"
    /\ pc[h] = "open"
    /\ cacheNames' = OpenNames(CACHE_NAME)
    /\ pc' = [pc EXCEPT ![h] = "match"]
    /\ UNCHANGED << req, strat, cached, net, nfetch, wr, ret, stores >>
    /\ UNCHANGED lifecycleVars

\* cache.match resolved: a hit is returned, a miss issues await fetch(request)
CfMatched(h) ==
    /\ strat[h] = "CF"
    /\ pc[h] = "match"
    /\ LET c == CacheMatch(CACHE_NAME, KeyOf(req[h])) IN
         /\ cached' = [cached EXCEPT ![h] = c]
         /\ IF CfHit(c)
            THEN /\ Settle(h, c)
                 /\ UNCHANGED << net, nfetch >>
            ELSE /\ net' = [net EXCEPT ![h] = "inflight"]
                 /\ nfetch' = [nfetch EXCEPT ![h] = @ + 1]
                 /\ pc' = [pc EXCEPT ![h] = "fetch"]
                 /\ UNCHANGED ret
    /\ UNCHANGED << req, strat, wr, cacheNames, stores >>
    /\ UNCHANGED lifecycleVars

\* the fetch settles: on success cache.put is issued, not awaited, and res
\* is returned; on failure the await throws and the handler rejects
CfFetchSettle(h) ==
    /\ strat[h] = "CF"
    /\ pc[h] = "fetch"
    /\ \E o \in Outcomes :
         /\ net' = [net EXCEPT ![h] = o]
         /\ IF o # "fail"
            THEN /\ IssuePut(h, CfPutKey(req[h]), o)
                 /\ Settle(h, o)
            ELSE /\ Settle(h, "rejected")
                 /\ UNCHANGED wr
    /\ UNCHANGED << req, strat, cached, nfetch, cacheNames, stores >>
    /\ UNCHANGED lifecycleVars

(***************************************************************************)
(* default branch: fetch(req).catch(() => caches.match(req))               *)
(***************************************************************************)
\* what the branch writes to the store for a response: nothing
NwcfPutAlways(h, o) == IssuePut(h, KeyOf(req[h]), o)
NwcfPut(h, o) == UNCHANGED wr

\* the fetch settles: a response is returned as it is; a failure runs the
\* catch-callback, whose caches.match(req) is pending
NwcfFetchSettle(h) ==
    /\ strat[h] = "NWCF"
    /\ pc[h] = "fetch"
    /\ \E o \in Outcomes :
         /\ net' = [net EXCEPT ![h] = o]
         /\ IF o # "fail"
            THEN /\ Settle(h, o)
                 /\ NwcfPut(h, o)
            ELSE /\ pc' = [pc EXCEPT ![h] = "match"]
                 /\ UNCHANGED << ret, wr >>
    /\ UNCHANGED << req, strat, cached, nfetch, cacheNames, stores >>
    /\ UNCHANGED lifecycleVars

\* caches.match(req) resolved: the entry, or undefined, which respondWith
\* turns into a network error
NwcfMatched(h) ==
    /\ strat[h] = "NWCF"
    /\ pc[h] = "match"
    /\ LET c == CachesMatch(KeyOf(req[h])) IN
         /\ cached' = [cached EXCEPT ![h] = c]
         /\ Settle(h, c)
    /\ UNCHANGED << req, strat, net, nfetch, wr, cacheNames, stores >>
    /\ UNCHANGED lifecycleVars

(***************************************************************************)
(* Specifications                                                          *)
(***************************************************************************)
Next ==
    \/ InstallStart
    \/ InstallOpened
    \/ \E i \in Assets : InstallFetchSettle(i)
    \/ InstallDone
    \/ InstallFailed
    \/ ActivateStart
    \/ ActivateKeys
    \/ \E k \in AllNames : ActivateDeleted(k)
    \/ ActivateClaim
    \/ \E h \in H : \E r \in Requests : FetchEvent(h, r)
    \/ \E h \in H : NfnFetchSettle(h)
    \/ \E h \in H : NfnOpened(h)
    \/ \E h \in H : NfnMatchEntry(h)
    \/ \E h \in H : NfnMatchRoot(h)
    \/ \E h \in H : SwrOpened(h)
    \/ \E h \in H : SwrMatched(h)
    \/ \E h \in H : SwrFetchSettle(h)
    \/ \E h \in H : CfOpened(h)
    \/ \E h \in H : CfMatched(h)
    \/ \E h \in H : CfFetchSettle(h)
    \/ \E h \in H : NwcfFetchSettle(h)
    \/ \E h \in H : NwcfMatched(h)
    \/ \E h \in H : PutApplied(h)
    \/ \E h \in H : PutRejected(h)

Spec == Init /\ [][Next]_vars

\* The router alone: one fetch event, its request drawn from the wide set
\* of descriptors, dispatched to an active worker with a populated store.
RouteStores ==
    [n \in AllNames |->
        IF n = CACHE_NAME
        THEN [k \in Keys |-> IF k \in {Resolve(ENTRY_HTML), Resolve("/app.js")}
                             THEN OldBody ELSE NoEntry]
        ELSE EmptyStore]

RouteInit ==
    /\ phase = "activated"
    /\ cacheNames = << CACHE_NAME >>
    /\ stores = RouteStores
    /\ claimed = TRUE
    /\ inst = [i \in Assets |-> "idle"]
    /\ actPending = {}
    /\ preAct = EmptyStore
    /\ IdleHandlers

RouteNext == \E r \in RouteRequests : FetchEvent(1, r)

RouteSpec == RouteInit /\ [][RouteNext]_vars

(***************************************************************************)
(* Vocabulary of the properties                                            *)
(***************************************************************************)
Started(h) == pc[h] # "idle"
Done(h) == pc[h] = "done"
\* handler h takes a step
Steps(h) == pc'[h] # pc[h]
\* the put of handler h is applied in this step
Applies(h) == wr[h].st = "pending" /\ wr'[h].st = "applied"
Current == stores[CACHE_NAME]
EntryKey == Resolve(ENTRY_HTML)
RootKey == Resolve(ROOT_PATH)
\* a response was delivered to the caller
Responded(h) == ret[h] \in Bodies \cup {OldBody, OldRoot, OFFLINE_DOC}

(***************************************************************************)
(* C1                                                                      *)
(***************************************************************************)
\* the descriptors of RoutePaths, classified by hand
ScriptPaths == { "/app.js", "/style.css" }
ImagePaths ==
    { "/a.png", "/b.jpg", "/c.jpeg", "/d.gif", "/e.webp", "/f.svg", "/favicon.ico" }

ExpectedStrategy(r) ==
    CASE r.method # "GET" -> "none"
      [] r.method = "GET" /\ r.mode = "navigate" -> "NFN"
      [] r.method = "GET" /\ r.mode # "navigate" /\ r.origin = SelfOrigin
            /\ r.pathname \in ScriptPaths -> "SWR"
      [] r.method = "GET" /\ r.mode # "navigate" /\ r.origin = SelfOrigin
            /\ r.pathname \in ImagePaths -> "CF"
      [] OTHER -> "NWCF"

\* C1: every dispatched request gets exactly the strategy of the first
\* matching rule (non-GET: none; navigate: Network-First-Navigation;
\* same-origin .css/.js: Stale-While-Revalidate; same-origin image suffix:
\* Cache-First; otherwise Network-With-Cache-Fallback), and a non-GET
\* request gets no respondWith, no fetch, no write and an unchanged store.
C1_FirstMatchRouting ==
    \A h \in H : Started(h) =>
        /\ strat[h] = ExpectedStrategy(req[h])
        /\ req[h].method # "GET" =>
              /\ ret[h] = "passthrough"
              /\ nfetch[h] = 0
              /\ net[h] = "none"
              /\ wr[h] = NoPut
              /\ stores = RouteStores
              /\ cacheNames = << CACHE_NAME >>
        /\ strat[h] \in {"NFN", "NWCF"} => nfetch[h] = 1 /\ pc[h] = "fetch"
        /\ strat[h] \in {"SWR", "CF"} => nfetch[h] = 0 /\ pc[h] = "open"

\* a GET navigation to a path ending in .js went to Network-First-Navigation
C1_Witness ==
    /\ req[1] = Req("GET", "navigate", SelfOrigin, "/app.js")
    /\ strat[1] = "NFN"

(***************************************************************************)
(* C2                                                                      *)
(***************************************************************************)
\* C2: a navigation handler whose fetch succeeded returns exactly the
\* network response and has issued the write of that response under
\* '/index.html' of the current store, whatever URL was requested; when
\* the write is applied the entry is that response.
C2_NavSuccess ==
    /\ [](\A h \in H : strat[h] = "NFN" /\ Done(h) /\ net[h] \in Bodies =>
            /\ ret[h] = net[h]
            /\ wr[h].st # "none"
            /\ wr[h].key = EntryKey
            /\ wr[h].val = net[h]
            /\ CACHE_NAME \in Range(cacheNames))
    /\ [][\A h \in H : strat[h] = "NFN" /\ Applies(h) =>
            stores'[CACHE_NAME][EntryKey] = net[h]]_vars

\* a navigation to /app.js succeeded and its write replaced the old entry
C2_Witness ==
    \E h \in H :
        /\ strat[h] = "NFN" /\ Done(h)
        /\ req[h].pathname = "/app.js"
        /\ net[h] \in Bodies
        /\ ret[h] = net[h]
        /\ wr[h].st = "applied"
        /\ Current[EntryKey] = net[h]
        /\ Current[KeyOf(req[h])] = NoEntry

(***************************************************************************)
(* C3                                                                      *)
(***************************************************************************)
\* C3: after a failed fetch the navigation handler returns the entry under
\* '/index.html' of the current store when the lookup finds one, whatever
\* is under '/'; otherwise it looks up '/' and returns that entry when it
\* exists; it issues no second fetch and no write.
C3_NavFallback ==
    /\ [](\A h \in H : strat[h] = "NFN" /\ net[h] = "fail" =>
            nfetch[h] = 1 /\ wr[h] = NoPut)
    /\ [][\A h \in H : strat[h] = "NFN" /\ Steps(h) =>
            /\ pc[h] = "matchEntry" =>
                 IF Current[EntryKey] # NoEntry
                 THEN Done(h)' /\ ret'[h] = Current[EntryKey]
                 ELSE pc'[h] = "matchRoot" /\ ret'[h] = "pending"
            /\ pc[h] = "matchRoot" /\ Current[RootKey] # NoEntry =>
                 Done(h)' /\ ret'[h] = Current[RootKey]]_vars

\* the fetch failed, both entries exist and differ, the canonical one won
C3_Witness ==
    \E h \in H :
        /\ strat[h] = "NFN" /\ Done(h) /\ net[h] = "fail"
        /\ Current[EntryKey] # NoEntry
        /\ Current[RootKey] \notin {NoEntry, Current[EntryKey]}
        /\ ret[h] = Current[EntryKey]

\* the fetch failed, only the root entry exists, and it was returned
C3_WitnessRoot ==
    \E h \in H :
        /\ strat[h] = "NFN" /\ Done(h) /\ net[h] = "fail"
        /\ Current[EntryKey] = NoEntry
        /\ ret[h] = Current[RootKey]
        /\ ret[h] # NoEntry

(***************************************************************************)
(* C4                                                                      *)
(***************************************************************************)
\* C4: a navigation handler never ends in failure: it always delivers a
\* response, and when the fetch failed and the lookups of '/index.html'
\* and '/' both miss, that response is the synthesized offline document.
C4_NavOffline ==
    /\ [](\A h \in H : strat[h] = "NFN" /\ Done(h) =>
            /\ Responded(h)
            /\ net[h] = "fail" /\ cached[h] = NoEntry => ret[h] = OFFLINE_DOC)
    /\ [][\A h \in H :
            strat[h] = "NFN" /\ Steps(h) /\ pc[h] = "matchRoot"
                /\ Current[RootKey] = NoEntry =>
            Done(h)' /\ ret'[h] = OFFLINE_DOC]_vars

\* the fetch failed with neither entry in the store: the offline document
C4_Witness ==
    \E h \in H :
        /\ strat[h] = "NFN" /\ Done(h) /\ net[h] = "fail"
        /\ Current[EntryKey] = NoEntry
        /\ Current[RootKey] = NoEntry
        /\ ret[h] = OFFLINE_DOC

(***************************************************************************)
(* C5                                                                      *)
(***************************************************************************)
\* C5: when the lookup of a Stale-While-Revalidate handler finds an entry
\* for the request's key in the current store, the handler returns that
\* entry at once, with its fetch still in flight; when the fetch has
\* succeeded and its write is applied, the entry of that key is the fresh
\* response, which is what a later lookup of the key returns.
C5_StaleThenFresh ==
    /\ [](\A h \in H : strat[h] = "SWR" /\ cached[h] \notin {"unset", NoEntry} =>
            /\ Done(h) /\ ret[h] = cached[h] /\ nfetch[h] = 1
            /\ wr[h].st # "none" =>
                 /\ net[h] \in Bodies
                 /\ wr[h].key = KeyOf(req[h])
                 /\ wr[h].val = net[h])
    /\ [][\A h \in H : strat[h] = "SWR" =>
            /\ Steps(h) /\ pc[h] = "match" /\ Current[KeyOf(req[h])] # NoEntry =>
                 /\ Done(h)'
                 /\ ret'[h] = Current[KeyOf(req[h])]
                 /\ net'[h] = "inflight"
            /\ Applies(h) => stores'[CACHE_NAME][KeyOf(req[h])] = net[h]]_vars

\* two requests for /app.js: the first got the old entry and revalidated
\* it, the second got the fresh response of the first
C5_Witness ==
    \E g, h \in H :
        /\ g # h
        /\ strat[g] = "SWR" /\ strat[h] = "SWR"
        /\ req[g] = req[h]
        /\ Done(g) /\ ret[g] = OldBody
        /\ net[g] \in Bodies /\ wr[g].st = "applied"
        /\ Done(h) /\ ret[h] = net[g]
        /\ net[h] = "inflight"

(***************************************************************************)
(* C6                                                                      *)
(***************************************************************************)
\* C6: a Stale-While-Revalidate handler that found no cached entry returns
\* what its fetch resolves to, and when that fetch failed it has issued a
\* second fetch of the request and returns that one's outcome.
C6_SecondFetchOnFailure ==
    \A h \in H : strat[h] = "SWR" /\ Done(h) /\ cached[h] = NoEntry =>
        /\ net[h] \in Bodies => ret[h] = net[h]
        /\ net[h] = "fail" => nfetch[h] = 2

(***************************************************************************)
(* C7                                                                      *)
(***************************************************************************)
\* C7: when the lookup of a Cache-First handler finds an entry for the
\* request's key in the current store, the handler returns that entry,
\* never issues a fetch, never issues a write and changes no store.
C7_CacheHitNoNetwork ==
    /\ [](\A h \in H : strat[h] = "CF" /\ cached[h] \notin {"unset", NoEntry} =>
            /\ Done(h) /\ ret[h] = cached[h]
            /\ nfetch[h] = 0 /\ net[h] = "none"
            /\ wr[h] = NoPut)
    /\ [][\A h \in H :
            strat[h] = "CF" /\ Steps(h) /\ pc[h] \in {"open", "match"}
                /\ Current[KeyOf(req[h])] # NoEntry =>
                /\ pc[h] = "match" => Done(h)' /\ ret'[h] = Current[KeyOf(req[h])]
                /\ nfetch'[h] = 0
                /\ stores' = stores /\ cacheNames' = cacheNames]_vars

\* an image request answered from the store
C7_Witness ==
    \E h \in H :
        /\ strat[h] = "CF" /\ Done(h)
        /\ cached[h] = OldBody
        /\ ret[h] = OldBody
        /\ nfetch[h] = 0

(***************************************************************************)
(* C8                                                                      *)
(***************************************************************************)
\* C8: when the lookup of a Cache-First handler finds no entry for the
\* request's key, the handler issues exactly one fetch; when it succeeds
\* the handler returns the fetched response and has issued the write of
\* it under the request's key, and when the write is applied the entry is
\* that response.
C8_CacheMissFetchesOnce ==
    /\ [](\A h \in H : strat[h] = "CF" /\ cached[h] = NoEntry =>
            /\ nfetch[h] = 1
            /\ Done(h) /\ net[h] \in Bodies =>
                 /\ ret[h] = net[h]
                 /\ wr[h].st # "none"
                 /\ wr[h].key = KeyOf(req[h])
                 /\ wr[h].val = net[h])
    /\ [][\A h \in H :
            /\ strat[h] = "CF" /\ Steps(h) /\ pc[h] = "match"
                 /\ Current[KeyOf(req[h])] = NoEntry =>
                 nfetch'[h] = 1 /\ net'[h] = "inflight"
            /\ strat[h] = "CF" /\ Applies(h) =>
                 stores'[CACHE_NAME][KeyOf(req[h])] = net[h]]_vars

\* an image that was not in the store was fetched once and is now stored
C8_Witness ==
    \E h \in H :
        /\ strat[h] = "CF" /\ Done(h)
        /\ cached[h] = NoEntry
        /\ nfetch[h] = 1
        /\ net[h] \in Bodies /\ ret[h] = net[h]
        /\ wr[h].st = "applied"
        /\ Current[KeyOf(req[h])] = net[h]

(***************************************************************************)
(* C9                                                                      *)
(***************************************************************************)
\* C9: the default branch returns the network response when the fetch
\* succeeds; when it fails it returns the entry stored for the request if
\* there is one and otherwise ends in failure; it issues one fetch, never
\* issues a write, and none of its steps changes a store.
C9_NetworkWithCacheFallback ==
    /\ [](\A h \in H : strat[h] = "NWCF" =>
            /\ wr[h] = NoPut
            /\ nfetch[h] = 1
            /\ Done(h) /\ net[h] \in Bodies => ret[h] = net[h])
    /\ [][\A h \in H : strat[h] = "NWCF" /\ Steps(h) =>
            /\ stores' = stores /\ cacheNames' = cacheNames
            /\ pc[h] = "match" =>
                 /\ Done(h)'
                 /\ IF Current[KeyOf(req[h])] # NoEntry
                    THEN ret'[h] = Current[KeyOf(req[h])]
                    ELSE ret'[h] = "undefined" /\ ~Responded(h)']_vars

\* the fetch failed and the stored entry of the request was returned
C9_Witness ==
    \E h \in H :
        /\ strat[h] = "NWCF" /\ Done(h)
        /\ net[h] = "fail"
        /\ ret[h] = Current[KeyOf(req[h])]
        /\ Responded(h)

\* the fetch failed with nothing stored: the caller gets a failure
C9_WitnessFailure ==
    \E h \in H :
        /\ strat[h] = "NWCF" /\ Done(h)
        /\ net[h] = "fail"
        /\ Current[KeyOf(req[h])] = NoEntry
        /\ ret[h] = "undefined"

(***************************************************************************)
(* C10                                                                     *)
(***************************************************************************)
\* C10: when the activate handler completes, no store other than
\* 'awc-cache-v2' exists, that store exists and holds every entry it held
\* when activation started, with the same value; a deletion is issued for
\* exactly the other stores, clients.claim() is called only when every
\* deletion has completed, and never before activation.
C10_ActivateCleansUp ==
    /\ [](/\ phase \in {"parsed", "installing", "installed"} => ~claimed
          /\ phase = "activating" => Current = preAct /\ Exists(CACHE_NAME)
          /\ claimed =>
               /\ actPending = {}
               /\ \A n \in StaleNames : ~Exists(n) /\ stores[n] = EmptyStore)
    /\ [][/\ phase = "installed" /\ phase' = "activating" =>
               /\ preAct' = Current
               /\ actPending' = {}
               /\ cacheNames' = cacheNames
          /\ KeysPending /\ ~KeysPending' =>
               /\ actPending' = Range(cacheNames) \ {CACHE_NAME}
               /\ claimed' <=> Range(cacheNames) = {CACHE_NAME}
               /\ cacheNames' = cacheNames
          /\ phase = "activating" /\ phase' = "activated" =>
               /\ claimed /\ claimed'
               /\ Range(cacheNames') = {CACHE_NAME}
               /\ \A k \in Keys : preAct[k] # NoEntry =>
                     stores'[CACHE_NAME][k] = preAct[k]]_vars

\* activation completed for a worker whose store held /a.png before, with
\* stale stores deleted on the way
C10_Witness ==
    /\ phase = "activated"
    /\ \A i \in Assets : inst[i] = "ok"
    /\ \A h \in H : ~Started(h)
    /\ preAct[Resolve("/a.png")] = OldBody
    /\ Current[Resolve("/a.png")] = OldBody
    /\ cacheNames = << CACHE_NAME >>

(***************************************************************************)
(* C11                                                                     *)
(***************************************************************************)
\* the worker went through its install listener and the install succeeded
Installed ==
    \/ phase \in {"installed", "activating"}
    \/ phase = "activated" /\ \E i \in Assets : inst[i] # "idle"

\* C11: the install step has succeeded only when the fetch of every
\* manifest path succeeded, and then every manifest path is a key of the
\* current store; once the fetch of one asset has failed the install step
\* cannot succeed any more, it can only fail, and it fails only then.
C11_InstallAllOrNothing ==
    /\ Installed =>
          /\ \A i \in Assets : inst[i] = "ok"
          /\ Exists(CACHE_NAME)
          /\ \A i \in Assets : Current[Resolve(PRECACHE_ASSETS[i])] # NoEntry
    /\ (\E i \in Assets : inst[i] = "fail") =>
          /\ phase \in {"installing", "redundant"}
          /\ phase = "installing" => ENABLED InstallFailed /\ ~ENABLED InstallDone
    /\ phase = "redundant" => \E i \in Assets : inst[i] = "fail"

\* the install succeeded on a store that did not exist before
C11_Witness ==
    /\ phase = "installed"
    /\ \A i \in Assets : inst[i] = "ok"
    /\ \A k \in Keys :
          Current[k] # NoEntry <=> \E i \in Assets : k = Resolve(PRECACHE_ASSETS[i])

\* one asset failed while the others were fetched: the install failed
C11_WitnessFailure ==
    /\ phase = "redundant"
    /\ Cardinality({ i \in Assets : inst[i] = "fail" }) = 1
    /\ Cardinality({ i \in Assets : inst[i] = "ok" }) = Len(PRECACHE_ASSETS) - 1

(***************************************************************************)
(* C12                                                                     *)
(***************************************************************************)
\* the handler's lookup found, or did not find, an entry
Hit(h) == cached[h] \notin {"unset", NoEntry}
Miss(h) == cached[h] = NoEntry
\* the caller got a failure instead of a response
Failed(h) == Done(h) /\ ret[h] \in {"undefined", "rejected"}

\* C12 as claimed: a handler of Network-First-Navigation,
\* Stale-While-Revalidate or Cache-First never ends in failure, whatever
\* the store holds.
C12_NoFailureOutsideDefault ==
    \A h \in H : strat[h] \in {"NFN", "SWR", "CF"} => ~Failed(h)

\* C12 as amended: Network-First-Navigation never ends in failure;
\* Stale-While-Revalidate and Cache-First deliver the cached entry
\* whenever their lookup found one, whatever the network does, but on a
\* miss with a failed fetch they end in failure (the first resolves to
\* undefined, the second rejects); a handler ends in failure only after
\* its own fetch failed and, for the default branch, only when the store
\* had no entry for the request either.
C12_FailureOnlyOnMiss ==
    \A h \in H :
        /\ strat[h] = "NFN" => ~Failed(h)
        /\ strat[h] \in {"SWR", "CF"} /\ Hit(h) =>
              Done(h) /\ ret[h] = cached[h] /\ Responded(h)
        /\ strat[h] = "SWR" /\ Done(h) /\ Miss(h) /\ net[h] = "fail" =>
              ret[h] = "undefined"
        /\ strat[h] = "CF" /\ Done(h) /\ Miss(h) /\ net[h] = "fail" =>
              ret[h] = "rejected"
        /\ Failed(h) => net[h] = "fail" /\ Miss(h)
        /\ Done(h) /\ strat[h] # "none" => Responded(h) \/ Failed(h)

\* an image that is not in the store, the fetch fails: the caller gets the
\* failure
C12_Witness ==
    \E h \in H :
        /\ strat[h] = "CF" /\ Done(h)
        /\ Miss(h) /\ net[h] = "fail"
        /\ Current[KeyOf(req[h])] = NoEntry
        /\ ret[h] = "rejected"

\* a script that is in the store, the fetch fails: the caller gets the entry
C12_WitnessRecovered ==
    \E h \in H :
        /\ strat[h] = "SWR" /\ Done(h)
        /\ Hit(h) /\ net[h] = "fail"
        /\ ret[h] = cached[h]

(***************************************************************************)
(* C13                                                                     *)
(***************************************************************************)
\* handler h returns a network response in this step
ReturnsFresh(h) == Steps(h) /\ Done(h)' /\ net[h] \in Bodies

\* C13 as claimed: when a navigation handler returns the network response,
\* the current store already holds that response under '/index.html'.
C13_WriteAppliedBeforeReturn ==
    [][\A h \in H : strat[h] = "NFN" /\ ReturnsFresh(h) =>
          stores'[CACHE_NAME][EntryKey] = net[h]]_vars

\* C13 as amended: a navigation handler issues the write of the fresh
\* response under '/index.html' before it returns, but the write is not
\* awaited: the step that returns the response changes no entry, the write
\* is applied (or rejected) only after the handler has returned, and the
\* store holds the response from the moment the write is applied.
C13_WriteIssuedBeforeReturn ==
    /\ [](\A h \in H : strat[h] = "NFN" /\ wr[h].st # "none" => Done(h))
    /\ [][\A h \in H : strat[h] = "NFN" =>
            /\ ReturnsFresh(h) =>
                 /\ ret'[h] = net[h]
                 /\ wr'[h] = [st |-> "pending", key |-> EntryKey, val |-> net[h]]
                 /\ stores' = stores
            /\ Applies(h) =>
                 /\ Done(h)
                 /\ stores' = [stores EXCEPT ![CACHE_NAME][EntryKey] = net[h]]]_vars

\* the handler has returned the fresh response while the store still holds
\* the old entry and the write is pending
C13_Witness ==
    \E h \in H :
        /\ strat[h] = "NFN" /\ Done(h)
        /\ net[h] \in Bodies /\ ret[h] = net[h]
        /\ wr[h].st = "pending"
        /\ Current[EntryKey] = OldBody

(***************************************************************************)
(* C14                                                                     *)
(***************************************************************************)
\* the Stale-While-Revalidate handlers whose write of key k was applied
SwrWriters(k) ==
    { h \in H : strat[h] = "SWR" /\ KeyOf(req[h]) = k /\ wr[h].st = "applied" }

\* C14: Stale-While-Revalidate handlers on the same key never wait for one
\* another (the next step of each is always possible) and fail only on
\* their own failed fetch after their own miss; every applied write sets
\* the entry to the response of its handler, whatever was there and
\* whichever request was issued first, nothing else changes the entry, so
\* the entry is the response of the write applied last.
C14_LastWriteWins ==
    /\ [](\A h \in H : strat[h] = "SWR" =>
            /\ pc[h] = "open" => ENABLED SwrOpened(h)
            /\ pc[h] = "match" => ENABLED SwrMatched(h)
            /\ net[h] = "inflight" => ENABLED SwrFetchSettle(h)
            /\ wr[h].st = "pending" => ENABLED PutApplied(h)
            /\ Failed(h) => net[h] = "fail" /\ Miss(h)
            /\ SwrWriters(KeyOf(req[h])) # {} =>
                 \E g \in SwrWriters(KeyOf(req[h])) :
                    Current[KeyOf(req[h])] = net[g])
    /\ [][\A h \in H : strat[h] = "SWR" =>
            /\ Applies(h) => stores'[CACHE_NAME][KeyOf(req[h])] = net[h]
            /\ stores'[CACHE_NAME][KeyOf(req[h])] # Current[KeyOf(req[h])] =>
                 \E g \in H : /\ strat[g] = "SWR" /\ req[g] = req[h]
                              /\ Applies(g)
                              /\ stores'[CACHE_NAME][KeyOf(req[h])] = net[g]]_vars

\* two requests for the same script got different responses; both writes
\* were applied and the entry is the response of the request issued first
C14_Witness ==
    \E g, h \in H :
        /\ g < h
        /\ strat[g] = "SWR" /\ strat[h] = "SWR" /\ req[g] = req[h]
        /\ net[g] \in Bodies /\ net[h] \in Bodies /\ net[g] # net[h]
        /\ wr[g].st = "applied" /\ wr[h].st = "applied"
        /\ Current[KeyOf(req[g])] = net[g]

(***************************************************************************)
(* C15                                                                     *)
(***************************************************************************)
\* the keys served by Cache-First
ImageKeys == { k \in Keys : IsImage(k) }

\* C15 as claimed: once the current store has an entry for an image key,
\* no step of request handling changes or removes it.
C15_ImageEntryNeverChanges ==
    [][\A k \in ImageKeys : phase = "activated" /\ Current[k] # NoEntry =>
          stores'[CACHE_NAME][k] = Current[k]]_vars

\* C15 as amended: an entry of an image key is never removed by request
\* handling, and it is changed only by the write of a Cache-First handler
\* for that key whose lookup was a miss, that is, one that looked the key
\* up before the entry existed; a Cache-First handler that finds the entry
\* issues no write, and navigation, Stale-While-Revalidate and default
\* handlers never write an image key.
C15_ImageEntryStickyAfterLookup ==
    /\ [](\A h \in H :
            /\ strat[h] = "CF" /\ Hit(h) => wr[h] = NoPut
            /\ strat[h] # "CF" => wr[h].key \notin ImageKeys)
    /\ [][\A k \in ImageKeys : phase = "activated" /\ Current[k] # NoEntry =>
            /\ stores'[CACHE_NAME][k] # NoEntry
            /\ stores'[CACHE_NAME][k] # Current[k] =>
                 \E h \in H : /\ strat[h] = "CF" /\ KeyOf(req[h]) = k
                              /\ Miss(h)
                              /\ Applies(h)
                              /\ stores'[CACHE_NAME][k] = net[h]]_vars

\* two concurrent requests for an image that was not stored: the entry
\* written by one was replaced by the write of the other, and both are done
C15_Witness ==
    \E g, h \in H :
        /\ g # h
        /\ strat[g] = "CF" /\ strat[h] = "CF" /\ req[g] = req[h]
        /\ Miss(g) /\ Miss(h)
        /\ net[g] \in Bodies /\ net[h] \in Bodies /\ net[g] # net[h]
        /\ wr[g].st = "applied" /\ wr[h].st = "applied"
        /\ Current[KeyOf(req[h])] = net[h]

\* a request that found the entry written by an earlier one left it alone
C15_WitnessSticky ==
    \E g, h \in H :
        /\ strat[g] = "CF" /\ strat[h] = "CF" /\ req[g] = req[h]
        /\ Miss(g) /\ wr[g].st = "applied"
        /\ Hit(h) /\ Done(h) /\ cached[h] = net[g]
        /\ Current[KeyOf(req[h])] = net[g]

(***************************************************************************)
(* C16                                                                     *)
(***************************************************************************)
\* C16: a navigation handler writes '/index.html' of the current store and
\* nothing else, whatever URL is navigated to: its own steps change no
\* entry at all, its write changes only '/index.html', and while requests
\* are handled '/index.html' changes only by the write of a navigation
\* handler, which sets it to that navigation's response.
C16_NavigationWritesEntryOnly ==
    /\ [](\A h \in H : strat[h] = "NFN" /\ wr[h].st # "none" =>
            wr[h].key = EntryKey /\ wr[h].val = net[h])
    /\ [][/\ \A h \in H : strat[h] = "NFN" =>
               /\ Steps(h) => stores' = stores
               /\ Applies(h) =>
                    /\ stores'[CACHE_NAME][EntryKey] = net[h]
                    /\ \A k \in Keys \ {EntryKey} :
                          stores'[CACHE_NAME][k] = Current[k]
                    /\ \A n \in StaleNames : stores'[n] = stores[n]
          /\ phase = "activated"
                /\ stores'[CACHE_NAME][EntryKey] # Current[EntryKey] =>
               \E h \in H : /\ strat[h] = "NFN"
                            /\ Applies(h)
                            /\ stores'[CACHE_NAME][EntryKey] = net[h]]_vars

\* a navigation to '/' succeeded and was written: the entry under '/' is
\* the old one, the entry under '/index.html' is the response
C16_Witness ==
    \E h \in H :
        /\ strat[h] = "NFN" /\ Done(h)
        /\ req[h].pathname = ROOT_PATH
        /\ net[h] \in Bodies
        /\ wr[h].st = "applied"
        /\ Current[RootKey] = OldRoot
        /\ Current[EntryKey] = net[h]

\* two navigations to different URLs: '/index.html' holds the response of
\* the one written last
C16_WitnessTwo ==
    \E g, h \in H :
        /\ strat[g] = "NFN" /\ strat[h] = "NFN"
        /\ req[g].pathname # req[h].pathname
        /\ net[g] \in Bodies /\ net[h] \in Bodies /\ net[g] # net[h]
        /\ wr[g].st = "applied" /\ wr[h].st = "applied"
        /\ Current[EntryKey] = net[h]

(***************************************************************************)
(* C17                                                                     *)
(***************************************************************************)
\* the background fetch of h fails, or its write is rejected, in this step
FetchFails(h) == net[h] = "inflight" /\ net'[h] = "fail"
WriteFails(h) == wr[h].st = "pending" /\ wr'[h].st = "failed"

\* C17: a Stale-While-Revalidate handler that found a cached entry has
\* delivered it and stays so whatever becomes of its fetch and its write:
\* a failed fetch issues no write, and the step in which the fetch fails
\* or the write is rejected changes neither the response delivered nor
\* any store entry.
C17_RevalidationFailureSwallowed ==
    /\ [](\A h \in H : strat[h] = "SWR" =>
            /\ Hit(h) => Done(h) /\ ret[h] = cached[h] /\ Responded(h)
            /\ net[h] = "fail" => wr[h] = NoPut)
    /\ [][\A h \in H :
            strat[h] = "SWR" /\ Hit(h) /\ (FetchFails(h) \/ WriteFails(h)) =>
                /\ ret'[h] = cached[h]
                /\ Done(h)'
                /\ stores' = stores
                /\ cacheNames' = cacheNames]_vars

\* two requests for a cached script: the fetch of one failed, the write of
\* the other was rejected; both got the cached entry, which is unchanged
C17_Witness ==
    \E g, h \in H :
        /\ strat[g] = "SWR" /\ strat[h] = "SWR"
        /\ Hit(g) /\ Hit(h)
        /\ net[g] = "fail"
        /\ net[h] \in Bodies /\ wr[h].st = "failed"
        /\ ret[g] = OldBody /\ ret[h] = OldBody
        /\ Current[KeyOf(req[h])] = OldBody

(***************************************************************************)
(* C18                                                                     *)
(***************************************************************************)
\* C18: while requests are handled no store exists under another name than
\* 'awc-cache-v2' and no entry is held under another name; the store a
\* handler has opened, and the one its write goes to, is 'awc-cache-v2'.
C18_OnlyCurrentStore ==
    /\ phase = "activated" =>
          /\ Range(cacheNames) \subseteq {CACHE_NAME}
          /\ \A n \in StaleNames : stores[n] = EmptyStore
    /\ \A h \in H :
          /\ strat[h] \in {"SWR", "CF"} /\ pc[h] \notin {"idle", "open"} =>
                Exists(CACHE_NAME)
          /\ wr[h].st # "none" =>
                /\ Exists(CACHE_NAME)
                /\ wr[h].st = "applied" => \E k \in Keys : Current[k] # NoEntry

\* a worker that replaced stale stores has handled a request whose write
\* was applied, and only the current store exists
C18_Witness ==
    /\ phase = "activated"
    /\ \A i \in Assets : inst[i] = "ok"
    /\ \E h \in H : wr[h].st = "applied" /\ Current[wr[h].key] = wr[h].val
    /\ cacheNames = << CACHE_NAME >>

\* a restarted worker whose store was gone: the handler created it again
C18_WitnessCreated ==
    /\ cacheNames = << CACHE_NAME >>
    /\ \E h \in H :
          /\ wr[h].st = "applied"
          /\ \A k \in Keys : Current[k] # NoEntry <=> k = wr[h].key

(***************************************************************************)
(* C19                                                                     *)
(***************************************************************************)
\* responses of resolved fetches: of this run, of the precache, or of an
\* earlier run of the worker
FetchedResponses == Bodies \cup {PrecacheBody, OldBody, OldRoot}

\* C19: every entry of the current store is the response of a resolved
\* fetch: a handler only ever writes the response its own fetch resolved
\* to, never the offline document nor the outcome of a failed fetch, and
\* the install writes the entry of an asset only when the fetch of that
\* asset succeeded.
C19_OnlyFetchedResponsesStored ==
    /\ \A k \in Keys : Current[k] # NoEntry => Current[k] \in FetchedResponses
    /\ \A h \in H : wr[h].st # "none" =>
          /\ net[h] \in Bodies
          /\ wr[h].val = net[h]
          /\ strat[h] \in {"NFN", "SWR", "CF"}
    /\ phase \in {"installing", "redundant", "installed", "activating"} =>
          \A i \in Assets :
             Current[Resolve(PRECACHE_ASSETS[i])] # NoEntry => inst[i] = "ok"

\* one navigation got the offline document, another handler's response
\* was written; the store holds that response and no offline document
C19_Witness ==
    \E g, h \in H :
        /\ strat[g] = "NFN" /\ ret[g] = OFFLINE_DOC
        /\ wr[h].st = "applied"
        /\ Current[wr[h].key] = net[h]
        /\ \A k \in Keys : Current[k] # OFFLINE_DOC

====
